---- MODULE Spec2Model ----
(***************************************************************************)
(* Model of the ChromaDB command-line wrapper (chroma_cli.py) and of the   *)
(* HTTP bridge (chroma_bridge.py).  One invocation of the CLI is one        *)
(* process; one request to the bridge is one handler run.  The vector store *)
(* (chromadb) is the only durable state; every call to it is one atomic     *)
(* step, and may raise.                                                     *)
(***************************************************************************)
EXTENDS Integers, Sequences, FiniteSets, TLC

(***************************************************************************)
(* Bounded input domains.                                                   *)
(***************************************************************************)
Names == {"npc1", "npc2"}
Ids == {"m1", "m2"}
QueryText == "quest help"
Script == "chroma_cli.py"

\* Longest column of a partial store response drawn in SpecFormat.
MaxDocs == 2

\* Metadata mappings, as sets of <<key, value>> pairs; {} is the empty dict.
M1 == {<<"importance", 8>>, <<"memory_tier", 2>>}
M2 == {<<"importance", 3>>}

(***************************************************************************)
(* base64 / utf-8 / JSON, as the library calls behave on the tokens used.  *)
(***************************************************************************)
TokA == "QQ=="
TokB == "Qg=="
TokBadPad == "QQ"
TokBadUtf8 == "/w=="
TokM1 == "eyJpbXBvcnRhbmNlIjogOCwgIm1lbW9yeV90aWVyIjogMn0="
TokM2 == "eyJpbXBvcnRhbmNlIjogM30="
TokNotJson == "bm9wZQ=="
TokNotB64 == "!!!!"
JsonM1 == "{\"importance\": 8, \"memory_tier\": 2}"
JsonM2 == "{\"importance\": 3}"

\* base64.b64decode(token): the bytes, or binascii.Error.  Characters outside
\* the alphabet are discarded (validate=False), so "!!!!" decodes to b"".
b64decode(tok) ==
    CASE tok = "" -> [exc |-> "", val |-> ""]
      [] tok = TokA -> [exc |-> "", val |-> "A"]
      [] tok = TokB -> [exc |-> "", val |-> "B"]
      [] tok = TokBadUtf8 -> [exc |-> "", val |-> "\\xff"]
      [] tok = TokM1 -> [exc |-> "", val |-> JsonM1]
      [] tok = TokM2 -> [exc |-> "", val |-> JsonM2]
      [] tok = TokNotJson -> [exc |-> "", val |-> "nope"]
      [] tok = TokNotB64 -> [exc |-> "", val |-> ""]
      [] OTHER -> [exc |-> "binascii.Error", val |-> ""]

\* bytes.decode('utf-8'): the text, or UnicodeDecodeError.
decode_utf8(bytes) ==
    IF bytes = "\\xff" THEN [exc |-> "UnicodeDecodeError", val |-> ""]
    ELSE [exc |-> "", val |-> bytes]

\* json.loads(text): the mapping, or JSONDecodeError.
json_loads(text) ==
    CASE text = JsonM1 -> [exc |-> "", val |-> M1]
      [] text = JsonM2 -> [exc |-> "", val |-> M2]
      [] OTHER -> [exc |-> "JSONDecodeError", val |-> {}]

\* str(e) of the exceptions that occur.
ErrMsg(cls) ==
    CASE cls = "IndexError" -> "list index out of range"
      [] cls = "ValueError" -> "invalid literal for int() with base 10"
      [] cls = "KeyError" -> "'documents'"
      [] cls = "TypeError" -> "'NoneType' object is not subscriptable"
      [] cls = "UnicodeDecodeError" -> "'utf-8' codec can't decode byte 0xff"
      [] cls = "binascii.Error" -> "Incorrect padding"
      [] cls = "JSONDecodeError" -> "Expecting value: line 1 column 1 (char 0)"
      [] cls = "NotFoundError" -> "Collection does not exist"
      [] cls = "StoreError" -> "store unavailable"
      [] OTHER -> cls

\* int(s) on the argument tokens used: the integer, or ValueError.
int(s) ==
    CASE s = "0" -> [exc |-> "", val |-> 0]
      [] s = "1" -> [exc |-> "", val |-> 1]
      [] s = "2" -> [exc |-> "", val |-> 2]
      [] s = "5" -> [exc |-> "", val |-> 5]
      [] s = "9" -> [exc |-> "", val |-> 9]
      [] s = "-1" -> [exc |-> "", val |-> -1]
      [] OTHER -> [exc |-> "ValueError", val |-> 0]

HandledJsonOnly(e) == e = "JSONDecodeError"

\* except (json.JSONDecodeError, base64.binascii.Error) as e
HandledByDecode(e) == e \in {"JSONDecodeError", "binascii.Error"}

\* add_memory's decode stage (the try block).  outcome "ok": document and
\* metadata decoded; "printed": an error object was printed and the handler
\* returned; "raise": an exception the handler's except clause does not name.
DecodeStage(document_b64, metadata_b64) ==
    LET Bad(e) == [outcome |-> "printed", document |-> "", metadata |-> {}, exc |-> "",
                   obj |-> [error |-> "Invalid base64 data: " \o ErrMsg(e)]]
        Esc(e) == [outcome |-> "raise", document |-> "", metadata |-> {}, exc |-> e,
                   obj |-> [error |-> ""]]
        Handle(e) == IF HandledByDecode(e) THEN Bad(e) ELSE Esc(e)
    IN  IF document_b64 = ""
        THEN [outcome |-> "printed", document |-> "", metadata |-> {}, exc |-> "",
              obj |-> [error |-> "Missing document"]]
        ELSE LET db == b64decode(document_b64) IN
             IF db.exc # "" THEN Handle(db.exc)
             ELSE LET dt == decode_utf8(db.val) IN
             IF dt.exc # "" THEN Handle(dt.exc)
             ELSE IF metadata_b64 = ""
             THEN [outcome |-> "ok", document |-> dt.val, metadata |-> {}, exc |-> "",
                   obj |-> [error |-> ""]]
             ELSE LET mb == b64decode(metadata_b64) IN
             IF mb.exc # "" THEN Handle(mb.exc)
             ELSE LET mt == decode_utf8(mb.val) IN
             IF mt.exc # "" THEN Handle(mt.exc)
             ELSE LET mj == json_loads(mt.val) IN
             IF mj.exc # "" THEN Handle(mj.exc)
             ELSE [outcome |-> "ok", document |-> dt.val, metadata |-> mj.val, exc |-> "",
                   obj |-> [error |-> ""]]

(***************************************************************************)
(* Filter builder (query_memories).  None is the record NoFilter.           *)
(***************************************************************************)
NoFilter == [op |-> "none"]
NoneArg == <<>>

BuildSingleWrapped(conditions) ==
    IF Len(conditions) >= 1 THEN [op |-> "$and", conds |-> conditions] ELSE NoFilter

\* where_filter from the collected conditions.
WhereOf(conditions) ==
    IF Len(conditions) = 1 THEN conditions[1]
    ELSE IF Len(conditions) > 1 THEN [op |-> "$and", conds |-> conditions]
    ELSE NoFilter

BuildWhereTierOnly(min_importance, memory_tier) ==
    WhereOf(IF memory_tier # NoneArg
            THEN <<[field |-> "memory_tier", op |-> "$eq", value |-> memory_tier[1]]>>
            ELSE <<>>)

\* min_importance and memory_tier are NoneArg or <<n>>.
BuildWhere(min_importance, memory_tier) ==
    LET c1 == IF min_importance # NoneArg
              THEN <<[field |-> "importance", op |-> "$gte", value |-> min_importance[1]]>>
              ELSE <<>>
        c2 == IF memory_tier # NoneArg
              THEN c1 \o <<[field |-> "memory_tier", op |-> "$eq", value |-> memory_tier[1]]>>
              ELSE c1
    IN  WhereOf(c2)

(***************************************************************************)
(* Result formatter (query_memories).  A column of the store's response is *)
(* a missing key, None, or a list of lists.                                 *)
(***************************************************************************)
Missing == [kind |-> "missing", val |-> <<>>]
NoneCol == [kind |-> "none", val |-> <<>>]
ListCol(outer) == [kind |-> "list", val |-> outer]

\* results.get(key, [[]])[0]
GetFirst(col) ==
    CASE col.kind = "missing" -> [exc |-> "", val |-> <<>>]
      [] col.kind = "none" -> [exc |-> "TypeError", val |-> <<>>]
      [] OTHER -> IF Len(col.val) = 0 THEN [exc |-> "IndexError", val |-> <<>>]
                  ELSE [exc |-> "", val |-> col.val[1]]

FormatRecordNoDefault(docs, metas, ids, distances, i) ==
    [id |-> IF i <= Len(ids) THEN ids[i] ELSE "",
     document |-> docs[i],
     metadata |-> IF i <= Len(metas) THEN metas[i] ELSE {},
     distance |-> IF i <= Len(distances) THEN distances[i] ELSE i]

\* One record of the output; i is 1-based here (Python's i + 1).
FormatRecord(docs, metas, ids, distances, i) ==
    [id |-> IF i <= Len(ids) THEN ids[i] ELSE "",
     document |-> docs[i],
     metadata |-> IF i <= Len(metas) THEN metas[i] ELSE {},
     distance |-> IF i <= Len(distances) THEN distances[i] ELSE 0]

\* The formatting block: the memories list, or the exception it raises.
FormatResults(results) ==
    IF results.documents.kind = "missing" THEN [exc |-> "KeyError", memories |-> <<>>]
    ELSE IF ~(results.documents.kind = "list" /\ Len(results.documents.val) > 0)
    THEN [exc |-> "", memories |-> <<>>]
    ELSE LET docs == results.documents.val[1]
             m == GetFirst(results.metadatas)
             d == GetFirst(results.ids)
             s == GetFirst(results.distances)
         IN  IF m.exc # "" THEN [exc |-> m.exc, memories |-> <<>>]
             ELSE IF d.exc # "" THEN [exc |-> d.exc, memories |-> <<>>]
             ELSE IF s.exc # "" THEN [exc |-> s.exc, memories |-> <<>>]
             ELSE [exc |-> "",
                   memories |-> [i \in 1..Len(docs) |->
                                   FormatRecord(docs, m.val, d.val, s.val, i)]]

(***************************************************************************)
(* The vector store, as the chromadb client calls behave.  The store is a  *)
(* function from the names of the existing collections to their records;   *)
(* a record is [id, document, metadata].  Every operator returns the       *)
(* exception raised ("" for none) and the store afterwards.                 *)
(***************************************************************************)
Record(id, document, metadata) == [id |-> id, document |-> document, metadata |-> metadata]

get_collection(st, name) ==
    [exc |-> IF name \in DOMAIN st THEN "" ELSE "NotFoundError", st |-> st]

create_collection_anew(st, name) ==
    [exc |-> "", st |-> [n \in DOMAIN st \cup {name} |-> IF n = name THEN {} ELSE st[n]]]

\* client.get_or_create_collection: an existing collection is returned as is.
get_or_create_collection(st, name) ==
    [exc |-> "", st |-> IF name \in DOMAIN st THEN st ELSE st @@ (name :> {})]

\* collection.add: new ids are inserted, ids already present are left alone.
add(st, name, ids, documents, metadatas) ==
    IF name \notin DOMAIN st THEN [exc |-> "NotFoundError", st |-> st]
    ELSE IF Len(ids) = 0 \/ Len(documents) # Len(ids) \/ Len(metadatas) # Len(ids)
    THEN [exc |-> "ValueError", st |-> st]
    ELSE [exc |-> "",
          st |-> [st EXCEPT ![name] =
                    @ \cup {Record(ids[i], documents[i], metadatas[i]) :
                              i \in {j \in 1..Len(ids) : \A r \in st[name] : r.id # ids[j]}}]]

upsert_by_add(st, name, id, document, metadata) ==
    add(st, name, <<id>>, <<document>>, <<metadata>>)

upsert_merge(st, name, id, document, metadata) ==
    IF name \notin DOMAIN st THEN [exc |-> "NotFoundError", st |-> st]
    ELSE [exc |-> "",
          st |-> [st EXCEPT ![name] =
                    {r \in @ : r.id # id}
                    \cup {Record(id, document,
                                 UNION {r.metadata : r \in {x \in @ : x.id = id}}
                                 \cup metadata)}]]

\* collection.upsert of one record: replaces the record of that id.
upsert(st, name, id, document, metadata) ==
    IF name \notin DOMAIN st THEN [exc |-> "NotFoundError", st |-> st]
    ELSE [exc |-> "",
          st |-> [st EXCEPT ![name] =
                    {r \in @ : r.id # id} \cup {Record(id, document, metadata)}]]

delete_collection_call(st, name) ==
    IF name \notin DOMAIN st THEN [exc |-> "NotFoundError", st |-> st]
    ELSE [exc |-> "", st |-> [n \in DOMAIN st \ {name} |-> st[n]]]

list_collections_call(st) ==
    SelectSeq(<<"npc1", "npc2">>, LAMBDA n : n \in DOMAIN st)

count(st, name) == Cardinality(st[name])

\* The store's evaluation of a where filter on one record's metadata.
MatchesAtom(metadata, c) ==
    CASE c.op = "$gte" -> \E kv \in metadata : kv[1] = c.field /\ kv[2] >= c.value
      [] c.op = "$eq" -> <<c.field, c.value>> \in metadata
      [] OTHER -> FALSE

Matches(metadata, where) ==
    CASE where.op = "none" -> TRUE
      [] where.op = "$and" -> \A i \in 1..Len(where.conds) : MatchesAtom(metadata, where.conds[i])
      [] OTHER -> MatchesAtom(metadata, where)

\* The orderings of k distinct elements of S.
Orderings(S, k) ==
    {s \in [1..k -> S] : \A i, j \in 1..k : i # j => s[i] # s[j]}

Min(a, b) == IF a <= b THEN a ELSE b

\* The columnar response for the records rs, nearest first; the distance
\* is opaque, here the rank.
Columns(rs) ==
    [ids |-> ListCol(<<[i \in 1..Len(rs) |-> rs[i].id]>>),
     documents |-> ListCol(<<[i \in 1..Len(rs) |-> rs[i].document]>>),
     metadatas |-> ListCol(<<[i \in 1..Len(rs) |-> rs[i].metadata]>>),
     distances |-> ListCol(<<[i \in 1..Len(rs) |-> i]>>)]

NoResults ==
    [ids |-> Missing, documents |-> Missing, metadatas |-> Missing, distances |-> Missing]

\* collection.query: the responses the store may give (the order among the
\* matching records is the store's), or the exception it raises.
query(st, name, kwargs) ==
    IF name \notin DOMAIN st THEN {[exc |-> "NotFoundError", results |-> NoResults]}
    ELSE IF kwargs.n_results <= 0 THEN {[exc |-> "TypeError", results |-> NoResults]}
    ELSE IF kwargs.where.op = "$and" /\ Len(kwargs.where.conds) < 2
    THEN {[exc |-> "ValueError", results |-> NoResults]}
    ELSE LET hit == {r \in st[name] : Matches(r.metadata, kwargs.where)}
             k == Min(kwargs.n_results, Cardinality(hit))
         IN  {[exc |-> "", results |-> Columns(s)] : s \in Orderings(hit, k)}

\* collection.get(ids=[id]): flat columns, in the store's order.
get(st, name, id) ==
    IF name \notin DOMAIN st
    THEN {[exc |-> "NotFoundError", ids |-> <<>>, documents |-> <<>>, metadatas |-> <<>>]}
    ELSE LET hit == {r \in st[name] : r.id = id}
         IN  {[exc |-> "",
               ids |-> [i \in 1..Len(s) |-> s[i].id],
               documents |-> [i \in 1..Len(s) |-> s[i].document],
               metadatas |-> [i \in 1..Len(s) |-> s[i].metadata]] :
                 s \in Orderings(hit, Cardinality(hit))}

(***************************************************************************)
(* Command lines and requests.  argv[1] is sys.argv[0].                     *)
(***************************************************************************)
Truncations(full) == {SubSeq(full, 1, k) : k \in 3..Len(full)}

\* (document token, metadata token) pairs of add_memory's command line.
GoodTokens == {<<TokA, TokM1>>, <<TokB, TokM2>>}

BadTokens ==
    {<<"", TokM1>>, <<TokBadPad, TokM1>>, <<TokBadUtf8, TokM1>>,
     <<TokA, TokBadPad>>, <<TokA, TokNotJson>>, <<TokA, TokBadUtf8>>,
     <<TokA, TokNotB64>>}

AddArgv ==
    {<<Script, "add_memory", n, i, t[1], t[2]>> : n \in Names, i \in Ids, t \in GoodTokens}
    \cup {<<Script, "add_memory", n, "m1", t[1], t[2]>> : n \in Names, t \in BadTokens}
    \cup {<<Script, "add_memory", n, i, TokB>> : n \in Names, i \in Ids}
    \cup {<<Script, "add_memory", "npc1">>, <<Script, "add_memory", "npc1", "m1">>}

QueryArgv ==
    UNION {Truncations(<<Script, "query", n, QueryText, lim, mi, tier>>) :
             n \in Names, lim \in {"1", "2", "x"}, mi \in {"-1", "5", "9"},
             tier \in {"2", "tier2"}}

Argvs ==
    {<<Script>>, <<Script, "bogus">>, <<Script, "bogus", "npc1">>,
     <<Script, "list_collections">>}
    \cup {<<Script, c>> : c \in {"create_collection", "add_memory", "query", "get_by_id",
                                 "delete_collection", "get_count"}}
    \cup {<<Script, c, n>> : c \in {"create_collection", "delete_collection", "get_count"},
                             n \in Names}
    \cup UNION {Truncations(<<Script, "get_by_id", n, i>>) : n \in Names, i \in Ids}
    \cup AddArgv \cup QueryArgv

\* Bodies of POST /collection/<name>/add; json = FALSE is a body that is
\* not JSON.
AddBodies ==
    {[json |-> TRUE, ids |-> <<i>>, documents |-> <<d[1]>>, metadatas |-> <<d[2]>>] :
       i \in Ids, d \in {<<"A", M1>>, <<"B", M2>>}}
    \cup {[json |-> TRUE, ids |-> <<>>, documents |-> <<>>, metadatas |-> <<>>],
          [json |-> FALSE, ids |-> <<>>, documents |-> <<>>, metadatas |-> <<>>]}

QueryBodies ==
    {[json |-> TRUE, query_texts |-> <<QueryText>>, n_results |-> n, where |-> NoFilter] :
       n \in {1, 2}}
    \cup {[json |-> FALSE, query_texts |-> <<>>, n_results |-> 5, where |-> NoFilter]}

NoBody == [json |-> FALSE]

Requests ==
    {[route |-> "health", name |-> "", data |-> NoBody]}
    \cup {[route |-> r, name |-> n, data |-> NoBody] : r \in {"create", "delete"}, n \in Names}
    \cup {[route |-> "add", name |-> n, data |-> b] : n \in Names, b \in AddBodies}
    \cup {[route |-> "query", name |-> n, data |-> b] : n \in Names, b \in QueryBodies}

NoRequest == [route |-> "", name |-> "", data |-> NoBody]

(***************************************************************************)
(* State.                                                                   *)
(***************************************************************************)
Procs == {1, 2}

VARIABLES
    store,      \* the vector store: collection name -> set of records
    lastWrite,  \* history: <<name, id>> -> the last record written there
    pc,         \* each process's position
    argv,       \* sys.argv of a CLI invocation
    request,    \* the request of a bridge handler run
    local,      \* the handler's local variables
    stdout,     \* the JSON objects printed, in order
    exit,       \* the exit statuses of the process, in order
    response,   \* the (body, status) pairs the bridge handler returned
    calls       \* the store operations issued by the invocation, in order

vars == <<store, lastWrite, pc, argv, request, local, stdout, exit, response, calls>>

NoLocal ==
    [collection_name |-> "", memory_id |-> "", document_b64 |-> "", metadata_b64 |-> "",
     document |-> "", metadata |-> {}, query_text |-> "", n_results |-> 0,
     min_importance |-> NoneArg, memory_tier |-> NoneArg, where |-> NoFilter,
     sent |-> <<>>, results |-> NoResults, prev |-> {}]

NoWrite == [k \in Names \X Ids |-> <<>>]

Init ==
    /\ store = <<>>
    /\ lastWrite = NoWrite
    /\ pc = [p \in Procs |-> "idle"]
    /\ argv = [p \in Procs |-> <<>>]
    /\ request = [p \in Procs |-> NoRequest]
    /\ local = [p \in Procs |-> NoLocal]
    /\ stdout = [p \in Procs |-> <<>>]
    /\ exit = [p \in Procs |-> <<>>]
    /\ response = [p \in Procs |-> <<>>]
    /\ calls = [p \in Procs |-> <<>>]

\* Nothing of a process or of a handler run outlives it but the store.
Reset(p) ==
    /\ local' = [local EXCEPT ![p] = NoLocal]
    /\ stdout' = [stdout EXCEPT ![p] = <<>>]
    /\ exit' = [exit EXCEPT ![p] = <<>>]
    /\ response' = [response EXCEPT ![p] = <<>>]
    /\ calls' = [calls EXCEPT ![p] = <<>>]

\* The process has exited, or the response was sent.
Terminate(p) ==
    /\ pc[p] = "done"
    /\ pc' = [pc EXCEPT ![p] = "idle"]
    /\ argv' = [argv EXCEPT ![p] = <<>>]
    /\ request' = [request EXCEPT ![p] = NoRequest]
    /\ Reset(p)
    /\ UNCHANGED <<store, lastWrite>>

\* python3 chroma_cli.py <command> [args...]
Launch(p) ==
    /\ pc[p] = "idle"
    /\ \E a \in Argvs :
         /\ argv' = [argv EXCEPT ![p] = a]
         /\ pc' = [pc EXCEPT ![p] = "main"]
    /\ UNCHANGED <<store, lastWrite, request, local, stdout, exit, response, calls>>

Receive(p) ==
    /\ pc[p] = "idle"
    /\ \E r \in Requests :
         /\ request' = [request EXCEPT ![p] = r]
         /\ pc' = [pc EXCEPT ![p] = "http_" \o r.route]
    /\ UNCHANGED <<store, lastWrite, argv, local, stdout, exit, response, calls>>

(***************************************************************************)
(* The CLI's entry point.                                                   *)
(***************************************************************************)
\* The process ends: what it printed, and its exit status.
Exit(p, printed, status) ==
    /\ pc' = [pc EXCEPT ![p] = "done"]
    /\ stdout' = [stdout EXCEPT ![p] = printed]
    /\ exit' = [exit EXCEPT ![p] = Append(@, status)]

CaughtAlways(cls) == TRUE

\* except Exception: every exception class but SystemExit.
CaughtByExcept(cls) == cls # "SystemExit"

\* An exception leaves the try body after `printed` was printed.
Raise(p, printed, cls) ==
    Exit(p, IF CaughtByExcept(cls) THEN Append(printed, [error |-> ErrMsg(cls)]) ELSE printed, 1)

\* Python's sys.argv[k].
Arg(a, k) == a[k + 1]

Parsed(e, next, l) == [exc |-> e, printed |-> <<>>, next |-> next, local |-> l]

ParseAddMemoryLenient(a) ==
    Parsed("", "add_memory",
           [NoLocal EXCEPT !.collection_name = IF Len(a) > 2 THEN Arg(a, 2) ELSE "",
                           !.memory_id = IF Len(a) > 3 THEN Arg(a, 3) ELSE "",
                           !.document_b64 = IF Len(a) > 4 THEN Arg(a, 4) ELSE "",
                           !.metadata_b64 = IF Len(a) > 5 THEN Arg(a, 5) ELSE ""])

ParseAddMemory(a) ==
    IF Len(a) <= 4 THEN Parsed("IndexError", "", NoLocal)
    ELSE Parsed("", "add_memory",
                [NoLocal EXCEPT !.collection_name = Arg(a, 2),
                                !.memory_id = Arg(a, 3),
                                !.document_b64 = Arg(a, 4),
                                !.metadata_b64 = IF Len(a) > 5 THEN Arg(a, 5) ELSE ""])

DefaultNResults == 5

ParseQuery(a) ==
    IF Len(a) <= 3 THEN Parsed("IndexError", "", NoLocal)
    ELSE LET n == IF Len(a) > 4 THEN int(Arg(a, 4)) ELSE [exc |-> "", val |-> DefaultNResults]
             mi == IF Len(a) > 5 /\ Arg(a, 5) # "-1" THEN int(Arg(a, 5))
                   ELSE [exc |-> "", val |-> -1]
             mt == IF Len(a) > 6 THEN int(Arg(a, 6)) ELSE [exc |-> "", val |-> -1]
         IN  IF n.exc # "" THEN Parsed(n.exc, "", NoLocal)
             ELSE IF mi.exc # "" THEN Parsed(mi.exc, "", NoLocal)
             ELSE IF mt.exc # "" THEN Parsed(mt.exc, "", NoLocal)
             ELSE Parsed("", "query",
                         [NoLocal EXCEPT
                            !.collection_name = Arg(a, 2),
                            !.query_text = Arg(a, 3),
                            !.n_results = n.val,
                            !.min_importance =
                               IF Len(a) > 5 /\ Arg(a, 5) # "-1" THEN <<mi.val>> ELSE NoneArg,
                            !.memory_tier = IF Len(a) > 6 THEN <<mt.val>> ELSE NoneArg])

\* The if/elif chain: the handler to run with its arguments, or the
\* exception raised on the way (after `printed`).
Dispatch(a) ==
    LET command == Arg(a, 1)
        OneName(next) ==
            IF Len(a) <= 2 THEN Parsed("IndexError", "", NoLocal)
            ELSE Parsed("", next, [NoLocal EXCEPT !.collection_name = Arg(a, 2)])
    IN  CASE command = "create_collection" -> OneName("create_collection")
          [] command = "add_memory" -> ParseAddMemory(a)
          [] command = "query" -> ParseQuery(a)
          [] command = "get_by_id" ->
               IF Len(a) <= 3 THEN Parsed("IndexError", "", NoLocal)
               ELSE Parsed("", "get_by_id",
                           [NoLocal EXCEPT !.collection_name = Arg(a, 2),
                                           !.memory_id = Arg(a, 3)])
          [] command = "delete_collection" -> OneName("delete_collection")
          [] command = "list_collections" -> Parsed("", "list_collections", NoLocal)
          [] command = "get_count" -> OneName("get_count")
          [] OTHER -> [exc |-> "SystemExit",
                       printed |-> <<[error |-> "Unknown command: " \o command]>>,
                       next |-> "", local |-> NoLocal]

Main(p) ==
    /\ pc[p] = "main"
    /\ IF Len(argv[p]) < 2
       THEN Exit(p, <<[error |-> "No command specified"]>>, 1) /\ UNCHANGED local
       ELSE LET d == Dispatch(argv[p])
            IN  IF d.exc # ""
                THEN Raise(p, d.printed, d.exc) /\ UNCHANGED local
                ELSE /\ pc' = [pc EXCEPT ![p] = d.next]
                     /\ local' = [local EXCEPT ![p] = d.local]
                     /\ UNCHANGED <<stdout, exit>>
    /\ UNCHANGED <<store, lastWrite, argv, request, response, calls>>

(***************************************************************************)
(* The CLI's handlers, one step per store call.                             *)
(***************************************************************************)
\* A store call the store could not serve raises and changes nothing.
Outcome(fail, r) == IF fail THEN [exc |-> "StoreError", st |-> store] ELSE r

\* The call log: each store operation issued, with the exception it raised.
Called(p, op, e) == calls' = [calls EXCEPT ![p] = Append(@, [op |-> op, exc |-> e])]

Emit(p, obj) == Append(stdout[p], obj)

create_collection(p) ==
    /\ pc[p] = "create_collection"
    /\ \E fail \in BOOLEAN :
         LET r == Outcome(fail, get_or_create_collection(store, local[p].collection_name))
         IN  /\ store' = r.st
             /\ Called(p, "get_or_create_collection", r.exc)
             /\ IF r.exc # "" THEN Raise(p, stdout[p], r.exc)
                ELSE Exit(p, Emit(p, [success |-> TRUE, name |-> local[p].collection_name]), 0)
    /\ UNCHANGED <<lastWrite, argv, request, local, response>>

add_memory_collection_created(st, name) == get_or_create_collection(st, name)

\* add_memory's collection = client.get_collection(name=collection_name)
add_memory_collection(st, name) == get_collection(st, name)

\* add_memory up to its upsert: the collection is fetched, then the tokens
\* are decoded.
add_memory(p) ==
    /\ pc[p] = "add_memory"
    /\ \E fail \in BOOLEAN :
         LET l == local[p]
             r == Outcome(fail, add_memory_collection(store, l.collection_name))
             dec == DecodeStage(l.document_b64, l.metadata_b64)
         IN  /\ store' = r.st
             /\ Called(p, "get_collection", r.exc)
             /\ IF r.exc # "" THEN Raise(p, stdout[p], r.exc) /\ UNCHANGED local
                ELSE IF dec.outcome = "printed"
                THEN Exit(p, Emit(p, dec.obj), 0) /\ UNCHANGED local
                ELSE IF dec.outcome = "raise"
                THEN Raise(p, stdout[p], dec.exc) /\ UNCHANGED local
                ELSE /\ pc' = [pc EXCEPT ![p] = "add_memory_upsert"]
                     /\ local' = [local EXCEPT ![p].document = dec.document,
                                               ![p].metadata = dec.metadata]
                     /\ UNCHANGED <<stdout, exit>>
    /\ UNCHANGED <<lastWrite, argv, request, response>>

add_memory_upsert(p) ==
    /\ pc[p] = "add_memory_upsert"
    /\ \E fail \in BOOLEAN :
         LET l == local[p]
             r == Outcome(fail, upsert(store, l.collection_name, l.memory_id,
                                       l.document, l.metadata))
         IN  /\ store' = r.st
             /\ Called(p, "upsert", r.exc)
             /\ IF r.exc # ""
                THEN Raise(p, stdout[p], r.exc) /\ UNCHANGED <<local, lastWrite>>
                ELSE /\ Exit(p, Emit(p, [success |-> TRUE]), 0)
                     /\ local' = [local EXCEPT ![p].prev =
                                    {x \in store[l.collection_name] : x.id = l.memory_id}]
                     /\ lastWrite' = [lastWrite EXCEPT ![<<l.collection_name, l.memory_id>>] =
                                        <<Record(l.memory_id, l.document, l.metadata)>>]
    /\ UNCHANGED <<argv, request, response>>

query_memories(p) ==
    /\ pc[p] = "query"
    /\ \E fail \in BOOLEAN :
         LET l == local[p]
             r == Outcome(fail, get_collection(store, l.collection_name))
         IN  /\ Called(p, "get_collection", r.exc)
             /\ IF r.exc # "" THEN Raise(p, stdout[p], r.exc) /\ UNCHANGED local
                ELSE /\ pc' = [pc EXCEPT ![p] = "query_call"]
                     /\ local' = [local EXCEPT ![p].where =
                                 BuildWhere(l.min_importance, l.memory_tier)]
                     /\ UNCHANGED <<stdout, exit>>
    /\ UNCHANGED <<store, lastWrite, argv, request, response>>

QueryKwargsDefaultLimit(l) ==
    [query_texts |-> <<l.query_text>>, n_results |-> 10, where |-> l.where]

\* The arguments of collection.query.
QueryKwargs(l) ==
    [query_texts |-> <<l.query_text>>, n_results |-> l.n_results, where |-> l.where]

\* query_memories after the store answered r: format and print.
QueryReturn(p, r) ==
    LET f == FormatResults(r.results)
    IN  /\ local' = [local EXCEPT ![p].sent = <<QueryKwargs(local[p])>>,
                                  ![p].results = r.results]
        /\ IF r.exc # "" THEN Raise(p, stdout[p], r.exc)
           ELSE IF f.exc # "" THEN Raise(p, stdout[p], f.exc)
           ELSE Exit(p, Emit(p, [success |-> TRUE, memories |-> f.memories]), 0)
        /\ Called(p, "query", r.exc)
        /\ UNCHANGED <<store, lastWrite, argv, request, response>>

query_call(p) ==
    /\ pc[p] = "query_call"
    /\ \E r \in query(store, local[p].collection_name, QueryKwargs(local[p]))
                  \cup {[exc |-> "StoreError", results |-> NoResults]} :
         QueryReturn(p, r)

get_by_id(p) ==
    /\ pc[p] = "get_by_id"
    /\ \E fail \in BOOLEAN :
         LET r == Outcome(fail, get_collection(store, local[p].collection_name))
         IN  /\ Called(p, "get_collection", r.exc)
             /\ IF r.exc # "" THEN Raise(p, stdout[p], r.exc)
                ELSE pc' = [pc EXCEPT ![p] = "get_by_id_get"] /\ UNCHANGED <<stdout, exit>>
    /\ UNCHANGED <<store, lastWrite, argv, request, local, response>>

get_by_id_memory_bare(r) == [id |-> r.ids[1], document |-> r.documents[1], metadata |-> {}]

\* memory = {"id": ..., "document": ..., "metadata": ... if results['metadatas'] else {}}
get_by_id_memory(r) ==
    [id |-> r.ids[1], document |-> r.documents[1],
     metadata |-> IF Len(r.metadatas) > 0 THEN r.metadatas[1] ELSE {}]

get_by_id_get(p) ==
    /\ pc[p] = "get_by_id_get"
    /\ \E r \in get(store, local[p].collection_name, local[p].memory_id)
                  \cup {[exc |-> "StoreError", ids |-> <<>>, documents |-> <<>>,
                         metadatas |-> <<>>]} :
         LET memory == get_by_id_memory(r)
         IN  /\ IF r.exc # "" THEN Exit(p, Emit(p, [error |-> ErrMsg(r.exc)]), 0)
                ELSE IF Len(r.documents) > 0
                THEN Exit(p, Emit(p, [success |-> TRUE, memory |-> <<memory>>]), 0)
                ELSE Exit(p, Emit(p, [success |-> TRUE, memory |-> <<>>]), 0)
             /\ Called(p, "get", r.exc)
    /\ UNCHANGED <<store, lastWrite, argv, request, local, response>>

delete_collection_failed(name, e) == [error |-> ErrMsg(e)]

\* except Exception as e: "Collection might not exist, that's OK"
delete_collection_except(name, e) ==
    [success |-> TRUE, deleted |-> name, note |-> ErrMsg(e)]

\* A deleted collection's records are gone.
Forget(name) == [k \in Names \X Ids |-> IF k[1] = name THEN <<>> ELSE lastWrite[k]]

delete_collection(p) ==
    /\ pc[p] = "delete_collection"
    /\ \E fail \in BOOLEAN :
         LET name == local[p].collection_name
             r == Outcome(fail, delete_collection_call(store, name))
         IN  /\ store' = r.st
             /\ Called(p, "delete_collection", r.exc)
             /\ IF r.exc # ""
                THEN /\ Exit(p, Emit(p, delete_collection_except(name, r.exc)), 0)
                     /\ UNCHANGED lastWrite
                ELSE /\ Exit(p, Emit(p, [success |-> TRUE, deleted |-> name]), 0)
                     /\ lastWrite' = Forget(name)
    /\ UNCHANGED <<argv, request, local, response>>

list_collections(p) ==
    /\ pc[p] = "list_collections"
    /\ \E fail \in BOOLEAN :
         /\ IF fail THEN Exit(p, Emit(p, [error |-> ErrMsg("StoreError")]), 0)
            ELSE Exit(p, Emit(p, [success |-> TRUE,
                                  collections |-> list_collections_call(store)]), 0)
         /\ Called(p, "list_collections", IF fail THEN "StoreError" ELSE "")
    /\ UNCHANGED <<store, lastWrite, argv, request, local, response>>

get_count_failed(e) == [error |-> ErrMsg(e)]

\* except Exception as e: print(json.dumps({"error": str(e), "count": 0}))
get_count_except(e) == [error |-> ErrMsg(e), count |-> 0]

get_count(p) ==
    /\ pc[p] = "get_count"
    /\ \E fail \in BOOLEAN :
         LET r == Outcome(fail, get_collection(store, local[p].collection_name))
         IN  /\ Called(p, "get_collection", r.exc)
             /\ IF r.exc # "" THEN Exit(p, Emit(p, get_count_except(r.exc)), 0)
                ELSE pc' = [pc EXCEPT ![p] = "get_count_count"] /\ UNCHANGED <<stdout, exit>>
    /\ UNCHANGED <<store, lastWrite, argv, request, local, response>>

get_count_count(p) ==
    /\ pc[p] = "get_count_count"
    /\ \E fail \in BOOLEAN :
         LET name == local[p].collection_name
             e == IF fail THEN "StoreError"
                  ELSE IF name \notin DOMAIN store THEN "NotFoundError" ELSE ""
         IN  /\ IF e # "" THEN Exit(p, Emit(p, get_count_except(e)), 0)
                ELSE Exit(p, Emit(p, [success |-> TRUE, count |-> count(store, name)]), 0)
             /\ Called(p, "count", e)
    /\ UNCHANGED <<store, lastWrite, argv, request, local, response>>

(***************************************************************************)
(* The bridge's handlers.                                                   *)
(***************************************************************************)
\* return jsonify(body), status
Respond(p, body, status) ==
    /\ pc' = [pc EXCEPT ![p] = "done"]
    /\ response' = [response EXCEPT ![p] = Append(@, [body |-> body, status |-> status])]

health(p) ==
    /\ pc[p] = "http_health"
    /\ \E fail \in BOOLEAN :
         /\ IF fail
            THEN Respond(p, [status |-> "error", message |-> ErrMsg("StoreError")], 500)
            ELSE Respond(p, [status |-> "ok"], 200)
         /\ Called(p, "heartbeat", IF fail THEN "StoreError" ELSE "")
    /\ UNCHANGED <<store, lastWrite, argv, request, local, stdout, exit>>

bridge_create_collection(p) ==
    /\ pc[p] = "http_create"
    /\ \E fail \in BOOLEAN :
         LET r == Outcome(fail, get_or_create_collection(store, request[p].name))
         IN  /\ store' = r.st
             /\ Called(p, "get_or_create_collection", r.exc)
             /\ IF r.exc # "" THEN Respond(p, [error |-> ErrMsg(r.exc)], 500)
                ELSE Respond(p, [name |-> request[p].name, id |-> request[p].name], 200)
    /\ UNCHANGED <<lastWrite, argv, request, local, stdout, exit>>

\* add_to_collection up to its add: request.json, then get_collection.
add_to_collection(p) ==
    /\ pc[p] = "http_add"
    /\ IF ~request[p].data.json
       THEN Respond(p, [error |-> "400 Bad Request"], 500) /\ UNCHANGED calls
       ELSE \E fail \in BOOLEAN :
                 LET r == Outcome(fail, get_collection(store, request[p].name))
                 IN  /\ Called(p, "get_collection", r.exc)
                     /\ IF r.exc # "" THEN Respond(p, [error |-> ErrMsg(r.exc)], 500)
                        ELSE pc' = [pc EXCEPT ![p] = "http_add_add"] /\ UNCHANGED response
    /\ UNCHANGED <<store, lastWrite, argv, request, local, stdout, exit>>

add_to_collection_add(p) ==
    /\ pc[p] = "http_add_add"
    /\ \E fail \in BOOLEAN :
         LET d == request[p].data
             r == Outcome(fail, add(store, request[p].name, d.ids, d.documents, d.metadatas))
         IN  /\ store' = r.st
             /\ Called(p, "add", r.exc)
             /\ IF r.exc # ""
                THEN Respond(p, [error |-> ErrMsg(r.exc)], 500) /\ UNCHANGED lastWrite
                ELSE /\ Respond(p, [success |-> TRUE], 200)
                     /\ lastWrite' =
                          [k \in Names \X Ids |->
                             IF /\ k[1] = request[p].name
                                /\ \E i \in 1..Len(d.ids) : d.ids[i] = k[2]
                                /\ \A x \in store[k[1]] : x.id # k[2]
                             THEN <<CHOOSE x \in r.st[k[1]] : x.id = k[2]>>
                             ELSE lastWrite[k]]
    /\ UNCHANGED <<argv, request, local, stdout, exit>>

query_collection(p) ==
    /\ pc[p] = "http_query"
    /\ IF ~request[p].data.json
       THEN Respond(p, [error |-> "400 Bad Request"], 500) /\ UNCHANGED calls
       ELSE \E fail \in BOOLEAN :
                 LET r == Outcome(fail, get_collection(store, request[p].name))
                 IN  /\ Called(p, "get_collection", r.exc)
                     /\ IF r.exc # "" THEN Respond(p, [error |-> ErrMsg(r.exc)], 500)
                        ELSE pc' = [pc EXCEPT ![p] = "http_query_query"] /\ UNCHANGED response
    /\ UNCHANGED <<store, lastWrite, argv, request, local, stdout, exit>>

query_collection_query(p) ==
    /\ pc[p] = "http_query_query"
    /\ \E r \in query(store, request[p].name, request[p].data)
                  \cup {[exc |-> "StoreError", results |-> NoResults]} :
         /\ IF r.exc # "" THEN Respond(p, [error |-> ErrMsg(r.exc)], 500)
            ELSE Respond(p, r.results, 200)
         /\ Called(p, "query", r.exc)
    /\ UNCHANGED <<store, lastWrite, argv, request, local, stdout, exit>>

bridge_delete_collection(p) ==
    /\ pc[p] = "http_delete"
    /\ \E fail \in BOOLEAN :
         LET r == Outcome(fail, delete_collection_call(store, request[p].name))
         IN  /\ store' = r.st
             /\ Called(p, "delete_collection", r.exc)
             /\ IF r.exc # ""
                THEN Respond(p, [error |-> ErrMsg(r.exc)], 500) /\ UNCHANGED lastWrite
                ELSE Respond(p, [success |-> TRUE], 200) /\ lastWrite' = Forget(request[p].name)
    /\ UNCHANGED <<argv, request, local, stdout, exit>>

(***************************************************************************)
(* Specification: invocations and requests run one after the other.        *)
(***************************************************************************)
Step(p) ==
    \/ Terminate(p)
    \/ Launch(p)
    \/ Receive(p)
    \/ Main(p)
    \/ create_collection(p)
    \/ add_memory(p)
    \/ add_memory_upsert(p)
    \/ query_memories(p)
    \/ query_call(p)
    \/ get_by_id(p)
    \/ get_by_id_get(p)
    \/ delete_collection(p)
    \/ list_collections(p)
    \/ get_count(p)
    \/ get_count_count(p)
    \/ health(p)
    \/ bridge_create_collection(p)
    \/ add_to_collection(p)
    \/ add_to_collection_add(p)
    \/ query_collection(p)
    \/ query_collection_query(p)
    \/ bridge_delete_collection(p)

Next == Step(1)

Spec == Init /\ [][Next]_vars

(***************************************************************************)
(* Specification of the result formatter alone: queries on one existing    *)
(* collection, answered by any partial columnar response, whose columns    *)
(* may be missing, None, empty, or of any length up to MaxDocs.            *)
(***************************************************************************)
DocValues == {"A", "B"}
IdAt(i) == IF i = 1 THEN "m1" ELSE IF i = 2 THEN "m2" ELSE "m3"
MetaAt(i) == IF i % 2 = 1 THEN M1 ELSE M2

Degenerate == {Missing, NoneCol, ListCol(<<>>)}

PartialResults ==
    [documents : Degenerate \cup {ListCol(<<d>>) : d \in UNION {[1..k -> DocValues] : k \in 0..MaxDocs}},
     ids : Degenerate \cup {ListCol(<<[i \in 1..k |-> IdAt(i)]>>) : k \in 0..MaxDocs},
     metadatas : Degenerate \cup {ListCol(<<[i \in 1..k |-> MetaAt(i)]>>) : k \in 0..MaxDocs},
     distances : Degenerate \cup {ListCol(<<[i \in 1..k |-> i]>>) : k \in 0..MaxDocs}]

InitFormat ==
    /\ store = ("npc1" :> {})
    /\ lastWrite = NoWrite
    /\ pc = [p \in Procs |-> "idle"]
    /\ argv = [p \in Procs |-> <<>>]
    /\ request = [p \in Procs |-> NoRequest]
    /\ local = [p \in Procs |-> NoLocal]
    /\ stdout = [p \in Procs |-> <<>>]
    /\ exit = [p \in Procs |-> <<>>]
    /\ response = [p \in Procs |-> <<>>]
    /\ calls = [p \in Procs |-> <<>>]

\* python3 chroma_cli.py query npc1 "quest help" [limit]
LaunchQuery(p) ==
    /\ pc[p] = "idle"
    /\ \E a \in {<<Script, "query", "npc1", QueryText>>,
                 <<Script, "query", "npc1", QueryText, "2">>} :
         /\ argv' = [argv EXCEPT ![p] = a]
         /\ pc' = [pc EXCEPT ![p] = "main"]
    /\ UNCHANGED <<store, lastWrite, request, local, stdout, exit, response, calls>>

\* collection.query answers with a partial response.
query_partial(p) ==
    /\ pc[p] = "query_call"
    /\ \E res \in PartialResults : QueryReturn(p, [exc |-> "", results |-> res])

NextFormat ==
    \/ Terminate(1)
    \/ LaunchQuery(1)
    \/ Main(1)
    \/ query_memories(1)
    \/ query_partial(1)

SpecFormat == InitFormat /\ [][NextFormat]_vars

(***************************************************************************)
(* Specification of concurrent writers: add_memory invocations in separate *)
(* processes on one existing collection, their steps interleaved in any    *)
(* order.  The store serves one call at a time.                             *)
(***************************************************************************)
InitConcurrent ==
    /\ store = ("npc1" :> {})
    /\ lastWrite = NoWrite
    /\ pc = [p \in Procs |-> "idle"]
    /\ argv = [p \in Procs |-> <<>>]
    /\ request = [p \in Procs |-> NoRequest]
    /\ local = [p \in Procs |-> NoLocal]
    /\ stdout = [p \in Procs |-> <<>>]
    /\ exit = [p \in Procs |-> <<>>]
    /\ response = [p \in Procs |-> <<>>]
    /\ calls = [p \in Procs |-> <<>>]

\* python3 chroma_cli.py add_memory npc1 <id> <document_b64> <metadata_b64>
LaunchAdd(p) ==
    /\ pc[p] = "idle"
    /\ \E i \in Ids, t \in GoodTokens :
         /\ argv' = [argv EXCEPT ![p] = <<Script, "add_memory", "npc1", i, t[1], t[2]>>]
         /\ pc' = [pc EXCEPT ![p] = "main"]
    /\ UNCHANGED <<store, lastWrite, request, local, stdout, exit, response, calls>>

StepConcurrent(p) ==
    \/ Terminate(p)
    \/ LaunchAdd(p)
    \/ Main(p)
    \/ add_memory(p)
    \/ add_memory_upsert(p)

NextConcurrent == \E p \in Procs : StepConcurrent(p)

SpecConcurrent == InitConcurrent /\ [][NextConcurrent]_vars

(***************************************************************************)
(* Vocabulary of the properties.                                            *)
(***************************************************************************)
Commands ==
    {"create_collection", "add_memory", "query", "get_by_id", "delete_collection",
     "list_collections", "get_count"}

\* The number of arguments each command requires after its name.
Required(c) ==
    CASE c \in {"create_collection", "delete_collection", "get_count"} -> 1
      [] c \in {"query", "get_by_id"} -> 2
      [] c = "add_memory" -> 3
      [] OTHER -> 0

IsCli(p) == argv[p] # <<>>
IsHttp(p) == request[p] # NoRequest
CliDone(p) == IsCli(p) /\ pc[p] = "done"
HttpDone(p) == IsHttp(p) /\ pc[p] = "done"
Command(p) == IF Len(argv[p]) >= 2 THEN argv[p][2] ELSE ""
Runs(p, c) == IsCli(p) /\ Command(p) = c /\ Len(argv[p]) >= 2 + Required(c)
HasError(p) == Len(stdout[p]) = 1 /\ "error" \in DOMAIN stdout[p][1]
Succeeded(p) ==
    /\ Len(stdout[p]) = 1
    /\ "success" \in DOMAIN stdout[p][1]
    /\ "error" \notin DOMAIN stdout[p][1]
    /\ exit[p] = <<0>>
Raised(p) == \E i \in 1..Len(calls[p]) : calls[p][i].exc # ""

\* Dispatcher-stage faults: no command, an unknown one, or too few arguments.
DispatcherFault(p) ==
    /\ IsCli(p)
    /\ \/ Len(argv[p]) < 2
       \/ Command(p) \notin Commands
       \/ Len(argv[p]) < 2 + Required(Command(p))

(***************************************************************************)
(* C1: every CLI invocation prints exactly one JSON object and ends with   *)
(* exactly one exit status: nothing is printed and no status is set while  *)
(* it runs, it can always take its next step until it has ended, and once  *)
(* ended it has printed one object and holds one status, 0 or 1.           *)
(***************************************************************************)
C1_OneObjectOneExit ==
    \A p \in Procs :
        IsCli(p) =>
            IF pc[p] = "done"
            THEN Len(stdout[p]) = 1 /\ Len(exit[p]) = 1 /\ exit[p][1] \in {0, 1}
            ELSE stdout[p] = <<>> /\ exit[p] = <<>> /\ ENABLED Step(p)

\* An invocation that ended after its second store call raised.
C1_Witness ==
    /\ CliDone(1)
    /\ Command(1) = "add_memory"
    /\ Len(calls[1]) = 2
    /\ calls[1][2] = [op |-> "upsert", exc |-> "StoreError"]
    /\ Len(stdout[1]) = 1

(***************************************************************************)
(* C3: after a successful add_memory the collection holds exactly one      *)
(* record under the id written, with the document and the metadata of that *)
(* invocation; and in every state a collection holds at most one record    *)
(* per id, which is the last one written under that id.                     *)
(***************************************************************************)
DocumentOf(tok) == IF tok = TokA THEN "A" ELSE "B"
MetadataOf(a) == IF Len(a) <= 5 THEN {} ELSE IF a[6] = TokM1 THEN M1 ELSE M2

C3_UpsertReplaces ==
    /\ \A n \in DOMAIN store : \A i \in Ids :
         LET held == {r \in store[n] : r.id = i}
         IN  /\ Cardinality(held) <= 1
             /\ lastWrite[<<n, i>>] # <<>> => held = {lastWrite[<<n, i>>][1]}
    /\ \A p \in Procs :
         (CliDone(p) /\ Command(p) = "add_memory" /\ Succeeded(p)) =>
             /\ argv[p][3] \in DOMAIN store
             /\ {r \in store[argv[p][3]] : r.id = argv[p][4]}
                  = {Record(argv[p][4], DocumentOf(argv[p][5]), MetadataOf(argv[p]))}

\* A successful add_memory that replaced a record with another document
\* and other metadata.
C3_Witness ==
    /\ CliDone(1) /\ Command(1) = "add_memory" /\ Succeeded(1)
    /\ local[1].prev = {Record("m1", "A", M1)}
    /\ "npc1" \in DOMAIN store
    /\ store["npc1"] = {Record("m1", "B", M2), Record("m2", "A", M1)}

(***************************************************************************)
(* C4: a step of add_memory or of POST /collection/<name>/add never        *)
(* changes the set of collections, and a write whose collection lookup     *)
(* found no collection ends with an error (exit 1, status 500).            *)
(***************************************************************************)
WritePcs == {"add_memory", "add_memory_upsert", "http_add", "http_add_add"}

NotFoundAt(p) == Len(calls[p]) >= 1 /\ calls[p][1].exc = "NotFoundError"

C4_WriteNeverCreates ==
    /\ [][\A p \in Procs :
            (pc[p] \in WritePcs /\ pc'[p] # pc[p]) => DOMAIN store' = DOMAIN store]_vars
    /\ [](\A p \in Procs :
            /\ (CliDone(p) /\ Runs(p, "add_memory") /\ NotFoundAt(p)) =>
                   HasError(p) /\ exit[p] = <<1>> /\ argv[p][3] \notin DOMAIN store
            /\ (HttpDone(p) /\ request[p].route = "add" /\ NotFoundAt(p)) =>
                   /\ Len(response[p]) = 1
                   /\ "error" \in DOMAIN response[p][1].body
                   /\ response[p][1].status = 500
                   /\ request[p].name \notin DOMAIN store)

\* An add_memory on a collection that does not exist, ended.
C4_Witness ==
    /\ CliDone(1) /\ Runs(1, "add_memory") /\ NotFoundAt(1)
    /\ argv[1][5] = TokA
    /\ DOMAIN store = {"npc1"} /\ argv[1][3] = "npc2"

(***************************************************************************)
(* C5: the where value sent to the store is absent when neither constraint *)
(* is supplied, the atomic predicate itself when one is, and the           *)
(* conjunction [importance >= minImportance, memory_tier == tier] when     *)
(* both are; a conjunction of fewer than two predicates is never sent.     *)
(***************************************************************************)
Gte(n) == [field |-> "importance", op |-> "$gte", value |-> n]
Eq(t) == [field |-> "memory_tier", op |-> "$eq", value |-> t]

\* The constraints the command line supplies.
MinImportanceOf(a) == IF Len(a) > 5 /\ a[6] # "-1" THEN <<int(a[6]).val>> ELSE <<>>
TierOf(a) == IF Len(a) > 6 THEN <<int(a[7]).val>> ELSE <<>>

C5_FilterShape ==
    \A p \in Procs :
        (IsCli(p) /\ local[p].sent # <<>>) =>
            LET w == local[p].sent[1].where
                mi == MinImportanceOf(argv[p])
                t == TierOf(argv[p])
            IN  /\ (mi = <<>> /\ t = <<>>) => w = NoFilter
                /\ (mi # <<>> /\ t = <<>>) => w = Gte(mi[1])
                /\ (mi = <<>> /\ t # <<>>) => w = Eq(t[1])
                /\ (mi # <<>> /\ t # <<>>) => w = [op |-> "$and", conds |-> <<Gte(mi[1]), Eq(t[1])>>]
                /\ w.op = "$and" => Len(w.conds) >= 2

\* A query sent with exactly one constraint, the tier.
C5_Witness ==
    /\ CliDone(1) /\ Command(1) = "query"
    /\ local[1].sent # <<>>
    /\ local[1].sent[1].where = Eq(2)

(***************************************************************************)
(* C9: an invocation with no command, an unknown command or a missing      *)
(* required argument issues no store operation, and ends with one error    *)
(* object and exit status 1.                                                *)
(***************************************************************************)
C9_DispatcherFaultNoStoreCall ==
    \A p \in Procs :
        DispatcherFault(p) =>
            /\ calls[p] = <<>>
            /\ pc[p] \in {"main", "done"}
            /\ pc[p] = "done" => HasError(p) /\ exit[p] = <<1>>

\* add_memory without its document, on a collection that exists.
C9_Witness ==
    /\ CliDone(1)
    /\ argv[1] = <<Script, "add_memory", "npc1", "m1">>
    /\ "npc1" \in DOMAIN store
    /\ HasError(1)

(***************************************************************************)
(* Failures of an invocation, told from its command line and its call log. *)
(***************************************************************************)
\* The decode-stage fault of add_memory's tokens: "missing" (no document),
\* "token" (not base64), "utf8" (not UTF-8 text), "json" (metadata that does
\* not parse), or "" for none.
DecodeFault(a) ==
    LET doc == a[5]
        meta == IF Len(a) > 5 THEN a[6] ELSE ""
    IN  CASE doc = "" -> "missing"
          [] doc = TokBadPad -> "token"
          [] doc = TokBadUtf8 -> "utf8"
          [] meta = TokBadPad -> "token"
          [] meta = TokBadUtf8 -> "utf8"
          [] meta \in {TokNotJson, TokNotB64} -> "json"
          [] OTHER -> ""

DecodeMessage(kind) ==
    CASE kind = "missing" -> "Missing document"
      [] kind = "token" -> "Invalid base64 data: Incorrect padding"
      [] kind = "json" -> "Invalid base64 data: Expecting value: line 1 column 1 (char 0)"
      [] OTHER -> "'utf-8' codec can't decode byte 0xff"

NeedsCollection == {"add_memory", "query", "get_by_id", "get_count"}

CliFailure(p) ==
    \/ DispatcherFault(p)
    \/ Runs(p, "add_memory") /\ DecodeFault(argv[p]) # ""
    \/ /\ Command(p) \in NeedsCollection
       /\ \E i \in 1..Len(calls[p]) : calls[p][i].exc = "NotFoundError"
    \/ Command(p) \in {"get_by_id", "list_collections", "get_count"} /\ Raised(p)

HttpFailure(p) ==
    \/ request[p].route \in {"add", "query"} /\ ~request[p].data.json
    \/ Raised(p)

\* The failures a handler reports itself, by printing and returning.
HandlerReported(p) ==
    \/ /\ Runs(p, "add_memory")
       /\ Len(calls[p]) = 1 /\ calls[p][1].exc = ""
       /\ DecodeFault(argv[p]) \in {"missing", "token", "json"}
    \/ Runs(p, "get_by_id") /\ Len(calls[p]) = 2 /\ calls[p][2].exc # ""
    \/ Command(p) = "list_collections" /\ Raised(p)
    \/ Runs(p, "get_count") /\ Raised(p)

LimitOf(a) == IF Len(a) > 4 THEN int(a[5]).val ELSE 5

Returned(results) ==
    IF results.documents.kind = "list" /\ Len(results.documents.val) > 0
    THEN Len(results.documents.val[1]) ELSE 0

C8_BoundedByLimit ==
    \A p \in Procs :
        (CliDone(p) /\ Runs(p, "query") /\ Succeeded(p)) =>
            LET n == Len(stdout[p][1].memories)
            IN  /\ n <= LimitOf(argv[p])
                /\ n <= Returned(local[p].results)
                /\ argv[p][3] \in DOMAIN store => n <= Cardinality(store[argv[p][3]])

\* A query with limit 1 on a collection of two records printed one record.
C8_Witness ==
    /\ CliDone(1) /\ Runs(1, "query") /\ Succeeded(1)
    /\ LimitOf(argv[1]) = 1
    /\ Len(stdout[1][1].memories) = 1
    /\ argv[1][3] \in DOMAIN store
    /\ Cardinality(store[argv[1][3]]) = 2

(***************************************************************************)
(* C10, as claimed: an add_memory whose tokens have a decode-stage fault   *)
(* issues no store operation and reports the decode error, whether or not  *)
(* the collection exists.                                                   *)
(***************************************************************************)
C10_DecodeFaultBeforeStore ==
    \A p \in Procs :
        (CliDone(p) /\ Runs(p, "add_memory") /\ DecodeFault(argv[p]) # "") =>
            /\ calls[p] = <<>>
            /\ HasError(p)
            /\ stdout[p][1].error = DecodeMessage(DecodeFault(argv[p]))

(***************************************************************************)
(* Columns of a store response, as the properties read them.               *)
(***************************************************************************)
\* The store answered the query of p (the call did not raise).
Answered(p) ==
    /\ CliDone(p) /\ Runs(p, "query")
    /\ Len(calls[p]) = 2 /\ calls[p][2] = [op |-> "query", exc |-> ""]

\* A column that is a list of lists, or is left out.
Columnar(col) == col.kind = "missing" \/ (col.kind = "list" /\ Len(col.val) > 0)
Sequence(col) == IF col.kind = "list" /\ Len(col.val) > 0 THEN col.val[1] ELSE <<>>
AbsentOrEmpty(col) == Len(Sequence(col)) = 0

(***************************************************************************)
(* C6: for a columnar response with a non-empty documents sequence, the    *)
(* query prints len(documents) records in the store's order; record i      *)
(* carries documents[i], and ids[i], metadatas[i], distances[i] when the   *)
(* parallel sequence has an index i, otherwise "", {} and 0.0.             *)
(***************************************************************************)
C6_FormatDefaults ==
    \A p \in Procs :
        LET r == local[p].results
            docs == Sequence(r.documents)
            ids == Sequence(r.ids)
            metas == Sequence(r.metadatas)
            dists == Sequence(r.distances)
        IN  (/\ Answered(p)
             /\ Len(docs) > 0
             /\ Columnar(r.ids) /\ Columnar(r.metadatas) /\ Columnar(r.distances)) =>
                /\ Succeeded(p)
                /\ Len(stdout[p][1].memories) = Len(docs)
                /\ \A i \in 1..Len(docs) :
                     LET m == stdout[p][1].memories[i]
                     IN  /\ m.document = docs[i]
                         /\ m.id = IF i <= Len(ids) THEN ids[i] ELSE ""
                         /\ m.metadata = IF i <= Len(metas) THEN metas[i] ELSE {}
                         /\ m.distance = IF i <= Len(dists) THEN dists[i] ELSE 0

\* Two documents, one id, an empty metadatas sequence and no distances.
C6_Witness ==
    /\ Answered(1)
    /\ local[1].results = [documents |-> ListCol(<<<<"A", "B">>>>),
                           ids |-> ListCol(<<<<"m1">>>>),
                           metadatas |-> ListCol(<<<<>>>>),
                           distances |-> Missing]
    /\ stdout[1] = <<[success |-> TRUE,
                      memories |-> <<[id |-> "m1", document |-> "A", metadata |-> {},
                                      distance |-> 0],
                                     [id |-> "", document |-> "B", metadata |-> {},
                                      distance |-> 0]>>]>>

(***************************************************************************)
(* C7, as claimed: when the documents sequence of the response is absent   *)
(* or empty, or any of ids, metadatas, distances is, the query ends with   *)
(* {success: true, memories: [...]} and exit status 0, with no memories    *)
(* when documents is absent or empty.                                       *)
(***************************************************************************)
C7_ShortResponseSucceeds ==
    \A p \in Procs :
        LET r == local[p].results
        IN  (/\ Answered(p)
             /\ \/ AbsentOrEmpty(r.documents) \/ AbsentOrEmpty(r.ids)
                \/ AbsentOrEmpty(r.metadatas) \/ AbsentOrEmpty(r.distances)) =>
                /\ Succeeded(p)
                /\ AbsentOrEmpty(r.documents) => stdout[p][1].memories = <<>>

(***************************************************************************)
(* C11: when the store serves the call, delete_collection on a name that   *)
(* does not exist prints {success: true, deleted: name, note: ...}, exits  *)
(* 0 and leaves the store as it was; on an existing name it prints         *)
(* {success: true, deleted: name} and removes that collection; either way  *)
(* the name is absent afterwards and every other collection keeps its      *)
(* records, so one more delete_collection changes nothing.                  *)
(***************************************************************************)
C11_DeleteIdempotent ==
    [][\A p \in Procs :
         (/\ pc[p] = "delete_collection" /\ pc'[p] = "done"
          /\ calls'[p] # <<[op |-> "delete_collection", exc |-> "StoreError"]>>) =>
            LET name == argv[p][3]
            IN  /\ name \notin DOMAIN store'
                /\ DOMAIN store' = DOMAIN store \ {name}
                /\ \A n \in DOMAIN store' : store'[n] = store[n]
                /\ exit'[p] = <<0>>
                /\ IF name \in DOMAIN store
                   THEN stdout'[p] = <<[success |-> TRUE, deleted |-> name]>>
                   ELSE /\ stdout'[p] = <<[success |-> TRUE, deleted |-> name,
                                           note |-> "Collection does not exist"]>>
                        /\ store' = store]_vars

\* delete_collection npc2, which does not exist, while npc1 holds a record.
C11_Witness ==
    /\ CliDone(1) /\ Runs(1, "delete_collection") /\ argv[1][3] = "npc2"
    /\ calls[1] = <<[op |-> "delete_collection", exc |-> "NotFoundError"]>>
    /\ stdout[1] = <<[success |-> TRUE, deleted |-> "npc2",
                      note |-> "Collection does not exist"]>>
    /\ exit[1] = <<0>>
    /\ "npc1" \in DOMAIN store /\ store["npc1"] # {}
    /\ "npc2" \notin DOMAIN store

(***************************************************************************)
(* C12, as claimed: an invocation one of whose store calls found the store *)
(* unavailable prints an error object and never {success: true}.            *)
(***************************************************************************)
StoreUnavailable(p) == \E i \in 1..Len(calls[p]) : calls[p][i].exc = "StoreError"

C12_UnavailableNeverSuccess ==
    \A p \in Procs :
        (CliDone(p) /\ StoreUnavailable(p)) =>
            /\ HasError(p)
            /\ "success" \notin DOMAIN stdout[p][1]

(***************************************************************************)
(* C13: under any interleaving of concurrent add_memory invocations, each  *)
(* invocation issues one get_collection and one upsert and no read of the  *)
(* record; its upsert leaves under the id exactly the record of its own    *)
(* command line (document and metadata together) and touches no other      *)
(* record; no other step changes the store; so the record held under an    *)
(* id is always, as a whole, the one written by the last upsert of that id.*)
(***************************************************************************)
WrittenBy(a) == Record(a[4], DocumentOf(a[5]), MetadataOf(a))

C13_LastWriterWins ==
    /\ [][\A p \in Procs :
            IF pc[p] = "add_memory_upsert" /\ exit'[p] = <<0>>
            THEN store' = [store EXCEPT !["npc1"] =
                             {r \in @ : r.id # argv[p][4]} \cup {WrittenBy(argv[p])}]
            ELSE pc'[p] # pc[p] => store' = store]_vars
    /\ [](\A i \in Ids :
            {r \in store["npc1"] : r.id = i} =
                {lastWrite[<<"npc1", i>>][k] : k \in 1..Len(lastWrite[<<"npc1", i>>])})
    /\ [](\A p \in Procs :
            (CliDone(p) /\ Succeeded(p)) =>
                calls[p] = <<[op |-> "get_collection", exc |-> ""],
                             [op |-> "upsert", exc |-> ""]>>)

\* Both invocations write m1 and both are past their collection lookup:
\* process 1 has upserted over a record written by an earlier invocation,
\* and process 2 is about to upsert another value.
C13_Witness ==
    /\ pc[1] = "done" /\ Succeeded(1) /\ pc[2] = "add_memory_upsert"
    /\ argv[1][4] = "m1" /\ argv[2][4] = "m1"
    /\ argv[1][5] = TokA /\ argv[2][5] = TokB
    /\ local[1].prev = {Record("m1", "B", M2)}
    /\ store["npc1"] = {Record("m1", "A", M1)}
    /\ lastWrite[<<"npc1", "m1">>] = <<Record("m1", "A", M1)>>

(***************************************************************************)
(* C14: when the store serves the call, create_collection (CLI and bridge) *)
(* never reports an error; on a name that exists it prints {success: true, *)
(* name} (the bridge answers {name, id} with status 200) and leaves the    *)
(* whole store, the records of that collection included, as it was; on a   *)
(* new name it adds exactly one collection, which is empty.                 *)
(***************************************************************************)
Created(st, name) == IF name \in DOMAIN st THEN st ELSE st @@ (name :> {})

C14_CreateIdempotent ==
    [][\A p \in Procs :
         /\ (/\ pc[p] = "create_collection" /\ pc'[p] = "done"
             /\ calls'[p] # <<[op |-> "get_or_create_collection", exc |-> "StoreError"]>>) =>
                /\ stdout'[p] = <<[success |-> TRUE, name |-> argv[p][3]]>>
                /\ exit'[p] = <<0>>
                /\ store' = Created(store, argv[p][3])
         /\ (/\ pc[p] = "http_create" /\ pc'[p] = "done"
             /\ calls'[p] # <<[op |-> "get_or_create_collection", exc |-> "StoreError"]>>) =>
                /\ response'[p] = <<[body |-> [name |-> request[p].name,
                                               id |-> request[p].name],
                                     status |-> 200]>>
                /\ store' = Created(store, request[p].name)]_vars

\* create_collection npc1 while npc1 holds two records: success, and the
\* records are still there.
C14_Witness ==
    /\ CliDone(1) /\ Runs(1, "create_collection") /\ argv[1][3] = "npc1"
    /\ stdout[1] = <<[success |-> TRUE, name |-> "npc1"]>>
    /\ exit[1] = <<0>>
    /\ "npc1" \in DOMAIN store
    /\ store["npc1"] = {Record("m1", "A", M1), Record("m2", "B", M2)}

(***************************************************************************)
(* C15: every record a successful query prints satisfies the constraints   *)
(* of its command line: importance >= min_importance when that argument is *)
(* given and is not "-1", memory_tier = tier when that argument is given;  *)
(* and nothing else is held back: the query prints as many records as the  *)
(* collection holds that satisfy them, up to the limit.  So with "-1" or   *)
(* no min_importance a record of any importance is returned, a record of   *)
(* importance 8 is returned for min_importance 5 and not for 9.            *)
(***************************************************************************)
Satisfies(metadata, a) ==
    LET mi == MinImportanceOf(a)
        t == TierOf(a)
    IN  /\ mi # <<>> => \E kv \in metadata : kv[1] = "importance" /\ kv[2] >= mi[1]
        /\ t # <<>> => <<"memory_tier", t[1]>> \in metadata

C15_ResultsSatisfyConstraints ==
    \A p \in Procs :
        (CliDone(p) /\ Runs(p, "query") /\ Succeeded(p)) =>
            LET m == stdout[p][1].memories
                held == {r \in store[argv[p][3]] : Satisfies(r.metadata, argv[p])}
            IN  /\ \A i \in 1..Len(m) :
                     /\ Satisfies(m[i].metadata, argv[p])
                     /\ Record(m[i].id, m[i].document, m[i].metadata) \in held
                     /\ m[i].distance >= 0
                /\ Len(m) = Min(LimitOf(argv[p]), Cardinality(held))

\* The collection holds m1 with importance 8 and m2 with importance 3; the
\* query with limit 2 and min_importance 5 prints m1 alone.
C15_Witness ==
    /\ CliDone(1) /\ Runs(1, "query") /\ Succeeded(1)
    /\ Len(argv[1]) = 6 /\ argv[1][5] = "2" /\ argv[1][6] = "5"
    /\ store[argv[1][3]] = {Record("m1", "A", M1), Record("m2", "B", M2)}
    /\ stdout[1][1].memories =
         <<[id |-> "m1", document |-> "A", metadata |-> M1, distance |-> 1]>>

(***************************************************************************)
(* C16: get_count never changes the store and always exits 0; on a         *)
(* collection that does not exist it prints an object with an error field  *)
(* and count 0 (as it does when the store cannot serve a call); on an      *)
(* existing collection it then prints {success: true, count} with count    *)
(* the number of records the collection holds.                              *)
(***************************************************************************)
C16_CountOnMissingIsZero ==
    /\ [][\A p \in Procs :
            pc[p] \in {"get_count", "get_count_count"} => store' = store]_vars
    /\ [](\A p \in Procs :
            (CliDone(p) /\ Runs(p, "get_count")) =>
                LET name == argv[p][3]
                IN  /\ exit[p] = <<0>>
                    /\ Len(stdout[p]) = 1
                    /\ IF StoreUnavailable(p)
                       THEN stdout[p][1] = [error |-> "store unavailable", count |-> 0]
                       ELSE IF name \notin DOMAIN store
                       THEN stdout[p][1] = [error |-> "Collection does not exist", count |-> 0]
                       ELSE stdout[p][1] = [success |-> TRUE,
                                            count |-> Cardinality(store[name])])

\* get_count npc2, which does not exist, while npc1 holds two records.
C16_Witness ==
    /\ CliDone(1) /\ Runs(1, "get_count") /\ argv[1][3] = "npc2"
    /\ "npc2" \notin DOMAIN store
    /\ "npc1" \in DOMAIN store /\ Cardinality(store["npc1"]) = 2
    /\ stdout[1] = <<[error |-> "Collection does not exist", count |-> 0]>>
    /\ exit[1] = <<0>>

(***************************************************************************)
(* C17: a get_by_id on an existing collection that the store serves exits  *)
(* 0 and prints {success: true, memory: null} when no write under that id  *)
(* is in effect in the collection, and otherwise {success: true, memory}   *)
(* with the id, document and metadata of the latest write under that id.   *)
(***************************************************************************)
C17_GetByIdLatestOrNull ==
    \A p \in Procs :
        (/\ CliDone(p) /\ Runs(p, "get_by_id")
         /\ calls[p] = <<[op |-> "get_collection", exc |-> ""], [op |-> "get", exc |-> ""]>>) =>
            /\ exit[p] = <<0>>
            /\ stdout[p] = <<[success |-> TRUE,
                              memory |-> lastWrite[<<argv[p][3], argv[p][4]>>]]>>
            /\ {r \in store[argv[p][3]] : r.id = argv[p][4]} =
                   {stdout[p][1].memory[k] : k \in 1..Len(stdout[p][1].memory)}

\* get_by_id npc1 m2 finds nothing while get_by_id's collection holds m1.
C17_Witness ==
    /\ CliDone(1) /\ Runs(1, "get_by_id")
    /\ argv[1][3] = "npc1" /\ argv[1][4] = "m2"
    /\ "npc1" \in DOMAIN store /\ store["npc1"] = {Record("m1", "B", M2)}
    /\ stdout[1] = <<[success |-> TRUE, memory |-> <<>>]>>
    /\ exit[1] = <<0>>

(***************************************************************************)
(* C18, as claimed: an add_memory on an existing collection whose metadata *)
(* token is not valid base64, or is base64 that does not parse as          *)
(* metadata, prints an error object and exits with the status of the       *)
(* handler's own error path (0) in both cases, and the two cases print     *)
(* different errors: the message of an invalid token is never printed for  *)
(* a parse failure, nor the other way round.                                *)
(***************************************************************************)
NotEncoded == {TokBadPad, TokNotB64}
NotParsable == {TokNotJson, TokBadUtf8}
MalformedTokenMessages == {"Invalid base64 data: Incorrect padding"}

C18_MalformedMetadataDistinct ==
    \A p \in Procs :
        (/\ CliDone(p) /\ Runs(p, "add_memory") /\ Len(argv[p]) > 5
         /\ argv[p][5] = TokA
         /\ argv[p][6] \in NotEncoded \cup NotParsable
         /\ calls[p] = <<[op |-> "get_collection", exc |-> ""]>>) =>
            /\ HasError(p)
            /\ exit[p] = <<0>>
            /\ argv[p][6] \in NotEncoded <=> stdout[p][1].error \in MalformedTokenMessages

(***************************************************************************)
(* C19, as claimed: after a successful POST /collection/{name}/add of one  *)
(* record, the collection holds under that id exactly the record of the    *)
(* request, whether or not the id was there before, as after add_memory.   *)
(***************************************************************************)
C19_BridgeAddReplaces ==
    \A p \in Procs :
        (/\ HttpDone(p) /\ request[p].route = "add"
         /\ response[p] = <<[body |-> [success |-> TRUE], status |-> 200]>>) =>
            LET d == request[p].data
            IN  {r \in store[request[p].name] : r.id = d.ids[1]} =
                    {Record(d.ids[1], d.documents[1], d.metadatas[1])}

====
